---- MODULE Spec2Model ----
(***************************************************************************)
(* Model of fracdiff/stat.py: StatTester (one stationarity test, ADF or    *)
(* KPSS, turned into a verdict by comparing the collaborator's p-value     *)
(* with a threshold) and StrictStatTester (both tests on the same series,  *)
(* combined with `and`, with a diagnostic print on disagreement).          *)
(*                                                                         *)
(* statsmodels (adfuller, kpss) is outside the repository: what it returns *)
(* for a call is an input of the call, drawn from CollabOutcomes.          *)
(* p-values and thresholds are points k / MaxP of a grid over [0, 1].      *)
(***************************************************************************)
EXTENDS Integers, Sequences, FiniteSets, TLC

VARIABLES
    obj,      \* the instance in use: a StatTester or a StrictStatTester
    obj0,     \* history: the instance as its constructor left it
    reused,   \* history: the last call was not the first on the instance
    call,     \* the last call: [op, x, threshold, verbose]
    env,      \* what adfuller / kpss answer during the last call
    res,      \* how the last call ended: [kind, value]
    log,      \* collaborator invocations and prints of the last call, in order
    branch    \* the if/elif case StrictStatTester.is_stat took in the last call

vars == <<obj, obj0, reused, call, env, res, log, branch>>

---------------------------------------------------------------------------
(* Bounds *)

MaxP == 2

PValues == 0..MaxP
Thresholds == 0..MaxP
Series == {"x1", "x2"}
VerboseValues == {0, 1}
Methods == {"ADF", "KPSS", "bogus"}
Failures == {"ValueError", "MissingDataError"}

\* What one collaborator call does: return a tuple holding a p-value, or raise.
CollabOutcomes ==
    {[ok |-> TRUE, pvalue |-> p, err |-> "none"] : p \in PValues}
    \cup {[ok |-> FALSE, pvalue |-> 0, err |-> e] : e \in Failures}

Envs == [adfuller : CollabOutcomes, kpss : CollabOutcomes]

\* A collaborator that is not asked anything during a call.
Idle == [ok |-> TRUE, pvalue |-> 0, err |-> "none"]
NoEnv == [adfuller |-> Idle, kpss |-> Idle]

\* The environments of a call on a StatTester: only the collaborator its
\* method names can be asked.
EnvsFor(self) ==
    {e \in Envs : /\ (self.method # "ADF" => e.adfuller = Idle)
                  /\ (self.method # "KPSS" => e.kpss = Idle)}

---------------------------------------------------------------------------
(* How a Python call ends *)

Return(v) == [kind |-> "return", value |-> v]
Raise(e) == [kind |-> "raise", value |-> e]

\* Exception(f'Unknown method {self.method}')
UnknownMethod(method) == "Unknown method " \o method

Ev(name, x) == [ev |-> name, x |-> x, msg |-> ""]
PrintEv(m) == [ev |-> "print", x |-> "", msg |-> m]

\* The collaborator's answer seen from the caller: the unpacked p-value, or
\* the exception it raised, as raised.
Collab(name, x, outcome) ==
    [log |-> <<Ev(name, x)>>,
     res |-> IF outcome.ok THEN Return(outcome.pvalue) ELSE Raise(outcome.err)]

---------------------------------------------------------------------------
(* StatTester *)

StatTester(method) == [class |-> "StatTester", method |-> method]

null_hypothesis_default(self) ==
    IF self.method = "KPSS" THEN Return("trend-stationary")
    ELSE Return("unit-root")

null_hypothesis(self) ==
    IF self.method = "ADF" THEN Return("unit-root")
    ELSE IF self.method = "KPSS" THEN Return("trend-stationary")
    ELSE Raise(UnknownMethod(self.method))

pvalue(self, x, e) ==
    IF self.method = "ADF" THEN Collab("adfuller", x, e.adfuller)
    ELSE IF self.method = "KPSS" THEN Collab("kpss", x, e.kpss)
    ELSE [log |-> <<>>, res |-> Raise(UnknownMethod(self.method))]

unit_root_verdict_gt(p, threshold) == p > threshold

\* line 86: self.pvalue(x) < pvalue
unit_root_verdict(p, threshold) == p < threshold

trend_verdict_strict(p, threshold) == p > threshold

trend_verdict_swapped(p, threshold) == threshold >= p

\* line 88: self.pvalue(x) >= pvalue
trend_verdict(p, threshold) == p >= threshold

is_stat(self, x, threshold, e) ==
    LET nh1 == null_hypothesis(self)
        pv == pvalue(self, x, e)
    IN IF nh1.kind = "raise" THEN [log |-> <<>>, res |-> nh1]
       ELSE IF nh1.value = "unit-root"
       THEN IF pv.res.kind = "raise" THEN pv
            ELSE [log |-> pv.log,
                  res |-> Return(unit_root_verdict(pv.res.value, threshold))]
       ELSE LET nh2 == null_hypothesis(self)
            IN IF nh2.kind = "raise" THEN [log |-> <<>>, res |-> nh2]
               ELSE IF nh2.value = "trend-stationary"
               THEN IF pv.res.kind = "raise" THEN pv
                    ELSE [log |-> pv.log,
                          res |-> Return(trend_verdict(pv.res.value, threshold))]
               ELSE [log |-> <<>>, res |-> Raise(UnknownMethod(self.method))]

---------------------------------------------------------------------------
(* StrictStatTester *)

StrictStatTester ==
    [class |-> "StrictStatTester",
     adf_test |-> StatTester("ADF"),
     kpss_test |-> StatTester("KPSS")]

Strict_null_hypothesis(self) == Return("unit-root and not trend-stationary")

MsgTrend == "Trend needs to be removed to make series strict stationary"
MsgDifference == "Series is difference stationary"

case_of_swapped(t1, t2) ==
    IF ~t1 /\ ~t2 THEN "Case 1"
    ELSE IF t1 /\ t2 THEN "Case 2"
    ELSE IF t1 /\ ~t2 THEN "Case 3"
    ELSE IF ~t1 /\ t2 THEN "Case 4"
    ELSE "none"

\* The if/elif chain of lines 125-139, named by the comments of the code.
case_of(t1, t2) ==
    IF ~t1 /\ ~t2 THEN "Case 1"
    ELSE IF t1 /\ t2 THEN "Case 2"
    ELSE IF ~t1 /\ t2 THEN "Case 3"
    ELSE IF t1 /\ ~t2 THEN "Case 4"
    ELSE "none"

printed_always(c, verbose) ==
    IF c = "Case 3" THEN IF verbose >= 0 THEN <<PrintEv(MsgTrend)>> ELSE <<>>
    ELSE IF c = "Case 4" THEN IF verbose >= 0 THEN <<PrintEv(MsgDifference)>> ELSE <<>>
    ELSE <<>>

\* What the taken case prints: lines 135-136 and 143-144.
printed(c, verbose) ==
    IF c = "Case 3" THEN IF verbose > 0 THEN <<PrintEv(MsgTrend)>> ELSE <<>>
    ELSE IF c = "Case 4" THEN IF verbose > 0 THEN <<PrintEv(MsgDifference)>> ELSE <<>>
    ELSE <<>>

py_or(a, b) == IF a THEN a ELSE b

\* Python's `a and b` on two booleans (line 146)
py_and(a, b) == IF a THEN b ELSE a

Strict_is_stat_kpss_first(self, x, threshold, verbose, e) ==
    LET r2 == is_stat(self.kpss_test, x, threshold, e)
        r1 == is_stat(self.adf_test, x, threshold, e)
    IN IF r2.res.kind = "raise"
       THEN [log |-> r2.log, res |-> r2.res, branch |-> "none"]
       ELSE IF r1.res.kind = "raise"
       THEN [log |-> r2.log \o r1.log, res |-> r1.res, branch |-> "none"]
       ELSE LET t1 == r1.res.value
                t2 == r2.res.value
                c == case_of(t1, t2)
            IN [log |-> r2.log \o r1.log \o printed(c, verbose),
                res |-> Return(py_and(t1, t2)),
                branch |-> c]

Strict_is_stat_fallback(self, x, threshold, verbose, e) ==
    LET r1 == is_stat(self.adf_test, x, threshold, e)
        r2 == is_stat(self.kpss_test, x, threshold, e)
        t1 == IF r1.res.kind = "raise" THEN FALSE ELSE r1.res.value
        t2 == IF r2.res.kind = "raise" THEN FALSE ELSE r2.res.value
        c == case_of(t1, t2)
    IN [log |-> r1.log \o r2.log \o printed(c, verbose),
        res |-> Return(py_and(t1, t2)),
        branch |-> c]

Strict_is_stat(self, x, threshold, verbose, e) ==
    LET r1 == is_stat(self.adf_test, x, threshold, e)
        r2 == is_stat(self.kpss_test, x, threshold, e)
    IN IF r1.res.kind = "raise"
       THEN [log |-> r1.log, res |-> r1.res, branch |-> "none"]
       ELSE IF r2.res.kind = "raise"
       THEN [log |-> r1.log \o r2.log, res |-> r2.res, branch |-> "none"]
       ELSE LET t1 == r1.res.value
                t2 == r2.res.value
                c == case_of(t1, t2)
            IN [log |-> r1.log \o r2.log \o printed(c, verbose),
                res |-> Return(py_and(t1, t2)),
                branch |-> c]

---------------------------------------------------------------------------
(* The state machine: one action per public operation *)

Call(op, x, threshold, verbose) ==
    [op |-> op, x |-> x, threshold |-> threshold, verbose |-> verbose]

Init ==
    /\ obj \in {StatTester(m) : m \in Methods} \cup {StrictStatTester}
    /\ obj0 = obj
    /\ reused = FALSE
    /\ call = Call("none", "", 0, 0)
    /\ env = NoEnv
    /\ res = Return("")
    /\ log = <<>>
    /\ branch = "none"

\* No operation assigns an attribute of self.
Frame ==
    /\ obj' = obj
    /\ obj0' = obj0
    /\ reused' = (call.op # "none")

NullHypothesis ==
    /\ obj.class = "StatTester"
    /\ call' = Call("null_hypothesis", "", 0, 0)
    /\ env' = NoEnv
    /\ res' = null_hypothesis(obj)
    /\ log' = <<>>
    /\ branch' = "none"
    /\ Frame

Pvalue ==
    /\ obj.class = "StatTester"
    /\ \E x \in Series, e \in EnvsFor(obj) :
        LET r == pvalue(obj, x, e)
        IN /\ call' = Call("pvalue", x, 0, 0)
           /\ env' = e
           /\ res' = r.res
           /\ log' = r.log
    /\ branch' = "none"
    /\ Frame

IsStat_normalizing ==
    /\ obj.class = "StatTester"
    /\ \E x \in Series, threshold \in Thresholds, e \in EnvsFor(obj) :
        LET r == is_stat(obj, x, threshold, e)
        IN /\ call' = Call("is_stat", x, threshold, 0)
           /\ env' = e
           /\ res' = r.res
           /\ log' = r.log
    /\ branch' = "none"
    /\ obj' = [obj EXCEPT !.method = IF @ = "KPSS" THEN "KPSS" ELSE "ADF"]
    /\ obj0' = obj0
    /\ reused' = (call.op # "none")

IsStat ==
    /\ obj.class = "StatTester"
    /\ \E x \in Series, threshold \in Thresholds, e \in EnvsFor(obj) :
        LET r == is_stat(obj, x, threshold, e)
        IN /\ call' = Call("is_stat", x, threshold, 0)
           /\ env' = e
           /\ res' = r.res
           /\ log' = r.log
    /\ branch' = "none"
    /\ Frame

StrictNullHypothesis ==
    /\ obj.class = "StrictStatTester"
    /\ call' = Call("null_hypothesis", "", 0, 0)
    /\ env' = NoEnv
    /\ res' = Strict_null_hypothesis(obj)
    /\ log' = <<>>
    /\ branch' = "none"
    /\ Frame

StrictIsStat ==
    /\ obj.class = "StrictStatTester"
    /\ \E x \in Series, threshold \in Thresholds, verbose \in VerboseValues, e \in Envs :
        LET r == Strict_is_stat(obj, x, threshold, verbose, e)
        IN /\ call' = Call("is_stat", x, threshold, verbose)
           /\ env' = e
           /\ res' = r.res
           /\ log' = r.log
           /\ branch' = r.branch
    /\ Frame

Next ==
    \/ NullHypothesis
    \/ Pvalue
    \/ IsStat
    \/ StrictNullHypothesis
    \/ StrictIsStat

Spec == Init /\ [][Next]_vars

---------------------------------------------------------------------------
(* Vocabulary of the properties *)

OnStat(op) == obj.class = "StatTester" /\ call.op = op
OnStrict(op) == obj.class = "StrictStatTester" /\ call.op = op

Returned == res.kind = "return"
Raised == res.kind = "raise"

Prints == SelectSeq(log, LAMBDA ev : ev.ev = "print")
Invocations == SelectSeq(log, LAMBDA ev : ev.ev # "print")

\* The p-values the two collaborators answered in the last call.
AdfP == env.adfuller.pvalue
KpssP == env.kpss.pvalue
BothAnswered == env.adfuller.ok /\ env.kpss.ok

\* The verdicts of the two sub-tests of the last StrictStatTester.is_stat.
T1 == is_stat(obj.adf_test, call.x, call.threshold, env).res.value
T2 == is_stat(obj.kpss_test, call.x, call.threshold, env).res.value

\* The verdict a StatTester gives at threshold t on the last call's inputs.
VerdictAt(t) == is_stat(obj, call.x, t, env).res.value

\* The truth table of the four outcome classes.
OutcomeClass(t1, t2) ==
    CASE ~t1 /\ ~t2 -> "BothNonStationary"
      [] t1 /\ t2 -> "BothStationary"
      [] ~t1 /\ t2 -> "TrendStationaryOnly"
      [] t1 /\ ~t2 -> "DifferenceStationary"

ClassOfCase(c) ==
    CASE c = "Case 1" -> "BothNonStationary"
      [] c = "Case 2" -> "BothStationary"
      [] c = "Case 3" -> "TrendStationaryOnly"
      [] c = "Case 4" -> "DifferenceStationary"
      [] OTHER -> "unclassified"

---------------------------------------------------------------------------
(* Properties *)

\* C1: whenever both sub-tests of StrictStatTester.is_stat give a verdict,
\* the call returns exactly (unit-root verdict AND trend-stationary verdict),
\* for every threshold and either value of verbose.
C1_CombinedIsConjunction ==
    (OnStrict("is_stat") /\ BothAnswered) =>
        /\ Returned
        /\ res.value = (T1 /\ T2)
        /\ res.value = (AdfP < call.threshold /\ KpssP >= call.threshold)

C1_Witness ==
    /\ OnStrict("is_stat") /\ BothAnswered /\ Returned
    /\ T1 /\ ~T2
    /\ res.value = FALSE

\* C2: StatTester.is_stat with method ADF returns TRUE iff pvalue < threshold,
\* with method KPSS iff pvalue >= threshold; at pvalue = threshold KPSS gives
\* TRUE and ADF gives FALSE.
C2_Directionality ==
    /\ (OnStat("is_stat") /\ obj.method = "ADF" /\ env.adfuller.ok) =>
        /\ Returned
        /\ res.value = (AdfP < call.threshold)
        /\ (AdfP = call.threshold => res.value = FALSE)
    /\ (OnStat("is_stat") /\ obj.method = "KPSS" /\ env.kpss.ok) =>
        /\ Returned
        /\ res.value = (KpssP >= call.threshold)
        /\ (KpssP = call.threshold => res.value = TRUE)

C2_Witness ==
    /\ OnStat("is_stat") /\ obj.method = "KPSS" /\ env.kpss.ok
    /\ KpssP = call.threshold
    /\ Returned /\ res.value = TRUE

\* C3: on a StatTester whose method is neither ADF nor KPSS, null_hypothesis,
\* pvalue and is_stat each raise "Unknown method <method>", on every call
\* (the first and the later ones), without asking a collaborator.
C3_UnknownMethodAlwaysRaises ==
    (obj.class = "StatTester" /\ obj.method \notin {"ADF", "KPSS"}
        /\ call.op \in {"null_hypothesis", "pvalue", "is_stat"}) =>
        /\ Raised
        /\ res.value = "Unknown method " \o obj.method
        /\ log = <<>>

C3_Witness ==
    /\ reused
    /\ OnStat("null_hypothesis") /\ obj.method = "bogus"
    /\ Raised

\* C4: a call prints at most one message, and prints one exactly when it is
\* a StrictStatTester.is_stat whose two verdicts disagree and verbose is on.
C4_DiagnosticIffDisagreement ==
    /\ Len(Prints) <= 1
    /\ Len(Prints) = 1 <=>
        /\ OnStrict("is_stat") /\ Returned
        /\ T1 # T2
        /\ call.verbose = 1

C4_Witness ==
    /\ OnStrict("is_stat") /\ Returned
    /\ ~T1 /\ T2
    /\ call.verbose = 1
    /\ Len(Prints) = 1

\* C5: the case StrictStatTester.is_stat takes is the one the truth table
\* gives for the verdict pair, it is one of the four classes, and with
\* verbose on the TrendStationaryOnly case prints the detrending message and
\* the DifferenceStationary case the differencing message, never swapped.
C5_ClassificationMatchesTable ==
    (OnStrict("is_stat") /\ Returned) =>
        /\ ClassOfCase(branch) = OutcomeClass(T1, T2)
        /\ (ClassOfCase(branch) = "TrendStationaryOnly" /\ call.verbose = 1) =>
            /\ Prints # <<>>
            /\ Prints[1].msg = "Trend needs to be removed to make series strict stationary"
        /\ (ClassOfCase(branch) = "DifferenceStationary" /\ call.verbose = 1) =>
            /\ Prints # <<>>
            /\ Prints[1].msg = "Series is difference stationary"

C5_Witness ==
    /\ OnStrict("is_stat") /\ Returned
    /\ T1 /\ ~T2 /\ call.verbose = 1
    /\ branch = "Case 4"
    /\ Prints # <<>>

\* C6: for the p-value of the last StatTester.is_stat call at threshold a:
\* an ADF verdict TRUE at a is TRUE at every b >= a, and a KPSS verdict FALSE
\* at a is FALSE at every b >= a.
C6_ThresholdMonotonicity ==
    (OnStat("is_stat") /\ Returned) =>
        /\ (obj.method = "ADF" /\ res.value = TRUE) =>
            \A b \in Thresholds : call.threshold <= b => VerdictAt(b) = TRUE
        /\ (obj.method = "KPSS" /\ res.value = FALSE) =>
            \A b \in Thresholds : call.threshold <= b => VerdictAt(b) = FALSE

C6_Witness ==
    /\ OnStat("is_stat") /\ Returned
    /\ obj.method = "ADF" /\ res.value = TRUE
    /\ call.threshold < MaxP

\* C7 as stated: for either method, a verdict TRUE at threshold a is TRUE at
\* every b >= a.
C7_BothNonDecreasing ==
    (OnStat("is_stat") /\ Returned /\ res.value = TRUE) =>
        \A b \in Thresholds : call.threshold <= b => VerdictAt(b) = TRUE

\* C7 amended: the ADF verdict is non-decreasing in the threshold and the
\* KPSS verdict is non-increasing: for a <= b, ADF TRUE at a is TRUE at b,
\* and KPSS TRUE at b is TRUE at a.
C7_OppositeMonotonicity ==
    \A a \in Thresholds, b \in Thresholds :
        (OnStat("is_stat") /\ Returned /\ a <= b /\ call.threshold \in {a, b}) =>
            /\ obj.method = "ADF" => (VerdictAt(a) => VerdictAt(b))
            /\ obj.method = "KPSS" => (VerdictAt(b) => VerdictAt(a))

C7_Witness ==
    /\ OnStat("is_stat") /\ Returned
    /\ obj.method = "KPSS" /\ res.value = TRUE
    /\ call.threshold < MaxP
    /\ VerdictAt(call.threshold + 1) = FALSE

\* C8: a collaborator failure ends the call with that same exception: no
\* boolean, no message, the failing collaborator asked once and nothing
\* asked after it; for StrictStatTester.is_stat and for StatTester.pvalue
\* and StatTester.is_stat.
C8_FailFast ==
    /\ (OnStrict("is_stat") /\ ~env.adfuller.ok) =>
        /\ res = Raise(env.adfuller.err)
        /\ log = <<Ev("adfuller", call.x)>>
    /\ (OnStrict("is_stat") /\ env.adfuller.ok /\ ~env.kpss.ok) =>
        /\ res = Raise(env.kpss.err)
        /\ log = <<Ev("adfuller", call.x), Ev("kpss", call.x)>>
    /\ (obj.class = "StatTester" /\ call.op \in {"pvalue", "is_stat"}) =>
        /\ (obj.method = "ADF" /\ ~env.adfuller.ok) =>
            /\ res = Raise(env.adfuller.err)
            /\ log = <<Ev("adfuller", call.x)>>
        /\ (obj.method = "KPSS" /\ ~env.kpss.ok) =>
            /\ res = Raise(env.kpss.err)
            /\ log = <<Ev("kpss", call.x)>>

C8_Witness ==
    /\ OnStrict("is_stat")
    /\ env.adfuller.ok /\ ~env.kpss.ok
    /\ Raised /\ res.value = "MissingDataError"
    /\ Prints = <<>>

\* C9: no call changes the instance: it stays as constructed (a StatTester
\* keeps its method, a StrictStatTester its ADF and KPSS sub-testers), so
\* every result is the one the constructed instance gives for the call's
\* arguments and the collaborators' answers.
C9_InstanceUnchanged ==
    /\ obj = obj0
    /\ obj.class = "StrictStatTester" =>
        obj.adf_test.method = "ADF" /\ obj.kpss_test.method = "KPSS"
    /\ OnStat("null_hypothesis") => res = null_hypothesis(obj0)
    /\ OnStat("pvalue") => res = pvalue(obj0, call.x, env).res
    /\ OnStat("is_stat") => res = is_stat(obj0, call.x, call.threshold, env).res
    /\ OnStrict("is_stat") =>
        res = Strict_is_stat(obj0, call.x, call.threshold, call.verbose, env).res

C9_Witness ==
    /\ reused
    /\ OnStat("is_stat") /\ obj.method = "bogus"
    /\ obj = obj0

\* C10: a StrictStatTester.is_stat that returns asked adfuller first and kpss
\* second, each once, on the call's series, and printed only after both; a
\* StatTester.is_stat that returns asked its collaborator exactly once, also
\* on a reused instance; if adfuller fails kpss is not asked; with an
\* unknown method no collaborator is asked.
C10_EvaluationOrder ==
    /\ (OnStrict("is_stat") /\ Returned) =>
        /\ Len(log) >= 2
        /\ log[1] = Ev("adfuller", call.x)
        /\ log[2] = Ev("kpss", call.x)
        /\ Len(Invocations) = 2
        /\ res.value = (AdfP < call.threshold /\ KpssP >= call.threshold)
    /\ (OnStrict("is_stat") /\ ~env.adfuller.ok) =>
        \A i \in 1..Len(log) : log[i].ev # "kpss"
    /\ (OnStat("is_stat") /\ Returned) =>
        log = <<Ev(IF obj.method = "ADF" THEN "adfuller" ELSE "kpss", call.x)>>
    /\ (OnStat("is_stat") /\ obj.method \notin {"ADF", "KPSS"}) =>
        Invocations = <<>>

C10_Witness ==
    /\ reused
    /\ OnStrict("is_stat") /\ Returned
    /\ Len(log) = 3
    /\ log[3].ev = "print"

====
